---- MODULE Spec2Model ----
(***************************************************************************)
(* ALOS frame map GeoJSON tiles: the tile indexer (latlon2tileid), the     *)
(* feature-collection append (add_feature) and the zoom-level-1 dissolver  *)
(* (make_zl1_geojson.py main), modelled from the Python sources.           *)
(*                                                                         *)
(* Four specifications share the module:                                    *)
(*   Spec          callers of add_feature on one path, step by step        *)
(*   SpecDissolve  runs of the dissolver over a directory of tile files    *)
(*   SpecTile      latlon2tileid applied to bounded inputs                 *)
(*   SpecColor     the fill colour of one frame of the ingestion script    *)
(***************************************************************************)
EXTENDS Integers, Sequences, FiniteSets, TLC

VARIABLES
    \* ---- add_feature on one path (Spec) ----
    file,        \* content of the file at path `geojson`
    dirExists,   \* os.path.dirname(geojson) exists
    pc,          \* per caller: position inside add_feature
    arg,         \* per caller: the `feature` argument of the current call
    flist,       \* per caller: the local features_list
    pre,         \* per caller: content of the file when the call was entered
    err,         \* per caller: the exception that ended the call, or "none"
    overlapped,  \* history: some call was entered while another was in progress
    called,      \* history: the feature arguments, in call order
    returned,    \* history: the feature arguments of the calls that returned
    init0,       \* history: content of the file before the first call
    \* ---- the dissolver (SpecDissolve) ----
    zldirExists, \* <input_dir>/<zl> exists
    tiles,       \* the tile files under <input_dir>/<zl>/*/*.geojson, in glob order
    zl1dirExists,\* <input_dir>/1/1 exists
    out_jsonfile,\* content of <input_dir>/1/1/0.geojson
    runs,        \* number of runs of main so far
    status,      \* outcome of the latest run: "none", "finished" or "raised"
    exc,         \* exception raised by the latest run, or "none"
    polygons,    \* the polygons list the latest run collected
    emitted,     \* the features the latest run handed to add_feature, in order
    before,      \* out_jsonfile and zl1dirExists as the latest run found them
    \* ---- latlon2tileid (SpecTile) ----
    lat, lon, zl,\* the arguments
    tile,        \* the result: not yet computed, a pair, or an exception
    \* ---- the fill colour of a frame (SpecColor) ----
    n_im,        \* number of epochs of the frame, len(bperp_dict)
    color,       \* the local `color`, a string as its sequence of characters
    fillColor,   \* properties['_fillColor'] of the feature handed to add_feature
    cpc          \* position in the loop body of the frame

avars == <<file, dirExists, pc, arg, flist, pre, err, overlapped, called,
           returned, init0>>
dvars == <<zldirExists, tiles, zl1dirExists, out_jsonfile, runs, status, exc,
           polygons, emitted, before>>
tvars == <<lat, lon, zl, tile>>
cvars == <<n_im, color, fillColor, cpc>>
vars == <<avars, dvars, tvars, cvars>>

\* ------------------------------------------------------------------ bounds
\* Calls of add_feature in one behaviour of Spec.
MaxCalls == 3
\* Features in the tile files of one input directory.
MaxFeatures == 2
\* Runs of the dissolver in one behaviour of SpecDissolve.
MaxRuns == 2
\* Largest zoom level tried by SpecTile.
MaxZoom == 5
\* Largest number of epochs of a frame tried by SpecColor.
MaxEpochs == 40

\* --------------------------------------------------------- file contents
(* A file is abstracted to what json.load makes of it.  size counts the     *)
(* serialised features (all features are taken to serialise to the same     *)
(* number of bytes), which is all that matters when a stale handle writes   *)
(* over newer bytes.                                                        *)
Content(k, t, fs, n) == [kind |-> k, type |-> t, features |-> fs, size |-> n]
Absent == Content("absent", "", <<>>, 0)
Empty == Content("empty", "", <<>>, 0)
Garbage(n) == Content("garbage", "", <<>>, n)
NoFeatures == Content("nofeatures", "", <<>>, 0)
Doc(t, fs) == Content("doc", t, fs, Len(fs))
FC == "FeatureCollection"
EmptyCollection == Doc(FC, <<>>)

\* Feature arguments of add_feature in Spec, and a JSON value that is no Feature.
Features == {"f1", "f2"}
Junk == "junk"

\* A valid GeoJSON FeatureCollection: right type, every member a Feature.
ValidCollection(c) ==
    /\ c.kind = "doc"
    /\ c.type = FC
    /\ \A i \in 1..Len(c.features) : c.features[i] # Junk

\* os.path.exists(geojson); the variant never sees the file.
path_exists_never(c) == FALSE
path_exists(c) == c.kind # "absent"

\* open(geojson, 'r'); json.load(f); json_dict['features']; the variant takes any
\* file it cannot read for an empty collection.
json_load_lenient(c) ==
    IF c.kind = "doc"
    THEN [ok |-> TRUE, err |-> "none", features |-> c.features]
    ELSE [ok |-> TRUE, err |-> "none", features |-> <<>>]
json_load(c) ==
    CASE c.kind = "absent" ->
             [ok |-> FALSE, err |-> "FileNotFoundError", features |-> <<>>]
      [] c.kind \in {"empty", "garbage"} ->
             [ok |-> FALSE, err |-> "JSONDecodeError", features |-> <<>>]
      [] c.kind = "nofeatures" ->
             [ok |-> FALSE, err |-> "KeyError", features |-> <<>>]
      [] OTHER -> [ok |-> TRUE, err |-> "none", features |-> c.features]

\* features_list.append(feature); the variant skips a feature already in the list.
list_append_dedup(l, f) ==
    IF \E i \in 1..Len(l) : l[i] = f THEN l ELSE Append(l, f)
list_append(l, f) == Append(l, f)

\* json.dump through a handle opened earlier: the bytes go to offset 0 and the
\* file keeps any longer tail another writer has put there since.
WriteThrough(old, new) ==
    IF old.size <= new.size THEN new ELSE Garbage(old.size)

\* add_feature run without interruption: [file, err]
add_feature(c, feature) ==
    LET c1 == IF path_exists(c) THEN c ELSE EmptyCollection
        r == json_load(c1)
    IN  IF r.ok
        THEN [file |-> Doc(FC, list_append(r.features, feature)), err |-> "none"]
        ELSE [file |-> c1, err |-> r.err]

\* ------------------------------------------------- Spec: add_feature steps
Callers == {"A", "B"}

InitialFiles ==
    {Absent, Empty, Garbage(1), NoFeatures, EmptyCollection, Doc(FC, <<"f1">>),
     Doc("Other", <<"f1">>), Doc(FC, <<Junk>>)}

DissolveIdle ==
    /\ zldirExists = FALSE /\ tiles = <<>> /\ zl1dirExists = FALSE
    /\ out_jsonfile = Absent /\ runs = 0 /\ status = "none" /\ exc = "none"
    /\ polygons = <<>> /\ emitted = <<>>
    /\ before = [file |-> Absent, dir |-> FALSE]

TileIdle == lat = 0 /\ lon = 0 /\ zl = 0 /\ tile = [kind |-> "none", x |-> 0, y |-> 0]

ColorIdle == n_im = 0 /\ color = <<>> /\ fillColor = <<>> /\ cpc = "idle"

AppendIdle ==
    /\ file = Absent /\ dirExists = FALSE
    /\ pc = [c \in Callers |-> "idle"]
    /\ arg = [c \in Callers |-> "f1"]
    /\ flist = [c \in Callers |-> <<>>]
    /\ pre = [c \in Callers |-> Absent]
    /\ err = [c \in Callers |-> "none"]
    /\ overlapped = FALSE /\ called = <<>> /\ returned = <<>> /\ init0 = Absent

Init ==
    /\ file \in InitialFiles
    /\ dirExists \in (IF path_exists(file) THEN {TRUE} ELSE {TRUE, FALSE})
    /\ pc = [c \in Callers |-> "idle"]
    /\ arg = [c \in Callers |-> "f1"]
    /\ flist = [c \in Callers |-> <<>>]
    /\ pre = [c \in Callers |-> Absent]
    /\ err = [c \in Callers |-> "none"]
    /\ overlapped = FALSE /\ called = <<>> /\ returned = <<>>
    /\ init0 = file
    /\ DissolveIdle /\ TileIdle /\ ColorIdle

Active(c) == pc[c] \notin {"idle", "done", "failed"}
Quiescent == \A c \in Callers : ~Active(c)

Raise(c, e) ==
    /\ pc' = [pc EXCEPT ![c] = "failed"]
    /\ err' = [err EXCEPT ![c] = e]

\* add_feature(feature, geojson) is entered
Call(c, f) ==
    /\ pc[c] \in {"idle", "done"}
    /\ Len(called) < MaxCalls
    /\ pc' = [pc EXCEPT ![c] = "exists"]
    /\ arg' = [arg EXCEPT ![c] = f]
    /\ pre' = [pre EXCEPT ![c] = file]
    /\ flist' = [flist EXCEPT ![c] = <<>>]
    /\ called' = Append(called, f)
    /\ overlapped' = (overlapped \/ \E d \in Callers \ {c} : Active(d))
    /\ UNCHANGED <<file, dirExists, err, returned, init0, dvars, tvars, cvars>>

\* if not os.path.exists(geojson):
CheckExists(c) ==
    /\ pc[c] = "exists"
    /\ pc' = [pc EXCEPT ![c] = IF path_exists(file) THEN "load" ELSE "makedirs"]
    /\ UNCHANGED <<file, dirExists, arg, flist, pre, err, overlapped, called,
                   returned, init0, dvars, tvars, cvars>>

\* os.makedirs(os.path.dirname(geojson), exist_ok=True)
MakeDirs(c) ==
    /\ pc[c] = "makedirs"
    /\ dirExists' = TRUE
    /\ pc' = [pc EXCEPT ![c] = "openx"]
    /\ UNCHANGED <<file, arg, flist, pre, err, overlapped, called, returned, init0,
                   dvars, tvars, cvars>>

\* with open(geojson, 'x') as f:
OpenX(c) ==
    /\ pc[c] = "openx"
    /\ IF path_exists(file)
       THEN Raise(c, "FileExistsError") /\ UNCHANGED file
       ELSE /\ file' = Empty
            /\ pc' = [pc EXCEPT ![c] = "dump0"]
            /\ UNCHANGED err
    /\ UNCHANGED <<dirExists, arg, flist, pre, overlapped, called, returned, init0,
                   dvars, tvars, cvars>>

\* json.dump({'type': 'FeatureCollection', 'features': []}, f), and the close
Dump0(c) ==
    /\ pc[c] = "dump0"
    /\ file' = WriteThrough(file, EmptyCollection)
    /\ pc' = [pc EXCEPT ![c] = "load"]
    /\ UNCHANGED <<dirExists, arg, flist, pre, err, overlapped, called, returned,
                   init0, dvars, tvars, cvars>>

\* with open(geojson, 'r'): json.load, ['features']; features_list.append(feature)
Load(c) ==
    /\ pc[c] = "load"
    /\ LET r == json_load(file)
       IN  IF r.ok
           THEN /\ flist' = [flist EXCEPT ![c] = list_append(r.features, arg[c])]
                /\ pc' = [pc EXCEPT ![c] = "openw"]
                /\ UNCHANGED err
           ELSE Raise(c, r.err) /\ UNCHANGED flist
    /\ UNCHANGED <<file, dirExists, arg, pre, overlapped, called, returned, init0,
                   dvars, tvars, cvars>>

\* with open(geojson, 'w') as f: (truncates)
OpenW(c) ==
    /\ pc[c] = "openw"
    /\ file' = Empty
    /\ pc' = [pc EXCEPT ![c] = "dumpw"]
    /\ UNCHANGED <<dirExists, arg, flist, pre, err, overlapped, called, returned,
                   init0, dvars, tvars, cvars>>

\* json.dump({'type': 'FeatureCollection', 'features': features_list}, f), close, return
DumpW(c) ==
    /\ pc[c] = "dumpw"
    /\ file' = WriteThrough(file, Doc(FC, flist[c]))
    /\ pc' = [pc EXCEPT ![c] = "done"]
    /\ returned' = Append(returned, arg[c])
    /\ UNCHANGED <<dirExists, arg, flist, pre, err, overlapped, called, init0,
                   dvars, tvars, cvars>>

Next ==
    \/ \E c \in Callers, f \in Features : Call(c, f)
    \/ \E c \in Callers : CheckExists(c)
    \/ \E c \in Callers : MakeDirs(c)
    \/ \E c \in Callers : OpenX(c)
    \/ \E c \in Callers : Dump0(c)
    \/ \E c \in Callers : Load(c)
    \/ \E c \in Callers : OpenW(c)
    \/ \E c \in Callers : DumpW(c)

Spec == Init /\ [][Next]_vars

\* ------------------------------------------------ claims about add_feature
Count(s, f) == Cardinality({i \in 1..Len(s) : s[i] = f})

\* What json.load or ['features'] rejects in a file that exists.
Unloadable(c) == c.kind \in {"empty", "garbage", "nofeatures"}

\* C1: n >= 1 calls f1..fn, one after the other, on a path that did not exist
\* before the first: no call fails, and once the calls are over the file is the
\* FeatureCollection whose features are exactly <<f1, ..., fn>>, in call order,
\* duplicates kept.
C1_AppendKeepsAll ==
    (init0 = Absent /\ ~overlapped) =>
        /\ \A c \in Callers : pc[c] # "failed"
        /\ (Quiescent /\ called # <<>>) => file = Doc(FC, called)

\* C1 witness: at least two sequential calls on a fresh path, the first two with
\* the same feature, and the file holds all of them.
C1_Witness ==
    /\ init0 = Absent /\ ~overlapped /\ Quiescent
    /\ Len(called) >= 2 /\ called[1] = called[2]
    /\ file = Doc(FC, called)

C10_SequentialSafe ==
    ~overlapped =>
        /\ \A c \in Callers : err[c] # "FileExistsError"
        /\ (Quiescent /\ returned # <<>>) =>
               /\ file.kind = "doc"
               /\ \A f \in Features : Count(file.features, f) >= Count(returned, f)

\* C10 witness: two overlapping calls on a fresh path both returned, and the file
\* holds one feature only (a lost update).
C10_Witness ==
    /\ init0 = Absent /\ overlapped
    /\ \A c \in Callers : pc[c] = "done"
    /\ Len(returned) = Cardinality(Callers)
    /\ file.kind = "doc" /\ Len(file.features) < Len(returned)

\* Also reachable with overlapping calls: a caller fails on open(geojson, 'x').
C10_ExclusiveCreateFails ==
    \E c \in Callers : overlapped /\ pc[c] = "failed" /\ err[c] = "FileExistsError"

\* ------------------------------------------- SpecDissolve: the dissolver
(* Geometry is abstracted to a strip of unit cells: a polygon covers an      *)
(* interval of cells, two polygons overlap when they share a cell and touch  *)
(* along an edge when their intervals are adjacent, and a connected region   *)
(* of a union is a maximal run of covered cells.  The cells are far coarser  *)
(* than the simplification tolerance (0.05 degrees).                         *)
(* The input zoom level is taken to differ from 1 (the default is 6), so the *)
(* output file <input_dir>/1/1/0.geojson is not among the tile files read.   *)
Cells == 1..3
Intervals == {a..b : a \in Cells, b \in Cells} \ {{}}

\* if lat > 84 or lat < -84: the Web Mercator display limit, in degrees
LatLimit == 84
\* First-vertex latitudes of the input features, in degrees.
Lats == {-85, -84, 80, 84, 85}

\* A feature of a tile file: the latitude of the first vertex of its first ring
\* (geometry['coordinates'][0][0][1]) and the cells its exterior ring encloses.
InputFeatures == [lat : Lats, cells : Intervals]

\* Polygon(feature['geometry']['coordinates'][0])
Polygon(feature) == [cells |-> feature.cells, simplified |-> FALSE]

\* The filter of the loop over features_list: TRUE when the feature is skipped; the
\* variant also skips a feature exactly on the limit.
skipped_strict(l) == l >= LatLimit \/ l <= -LatLimit
skipped(l) == l > LatLimit \/ l < -LatLimit

\* for feature in features_list: ... polygons.append(...), for one tile file
RECURSIVE CollectFile(_)
CollectFile(features_list) ==
    IF features_list = <<>> THEN <<>>
    ELSE LET feature == Head(features_list)
             rest == CollectFile(Tail(features_list))
         IN  IF skipped(feature.lat) THEN rest ELSE <<Polygon(feature)>> \o rest

\* for _json in glob.glob(os.path.join(zldir, '*', '*.geojson')): ...
RECURSIVE Collect(_)
Collect(files) ==
    IF files = <<>> THEN <<>>
    ELSE CollectFile(Head(files)) \o Collect(Tail(files))

Covered(ps) == UNION {ps[i].cells : i \in 1..Len(ps)}

\* The connected region of the covered cells U that holds cell c.
RegionOf(U, c) ==
    {d \in U : \A e \in (IF c < d THEN c..d ELSE d..c) : e \in U}

Least(S) == CHOOSE c \in S : \A d \in S : c <= d

\* The regions of U as a sequence (the order of MultiPolygon.geoms; taken west to
\* east here, no claim depends on it).
RECURSIVE RegionSeq(_)
RegionSeq(U) ==
    IF U = {} THEN <<>>
    ELSE LET r == RegionOf(U, Least(U))
         IN  <<[cells |-> r, simplified |-> FALSE]>> \o RegionSeq(U \ r)

\* unary_union(MultiPolygon(polygons)): one Polygon, a MultiPolygon of disjoint
\* Polygons, or (no polygons) an empty GeometryCollection (shapely 1.x, whose
\* .type and iteration over multi-part geometries the script uses); the variant
\* collects the polygons without merging them.
unary_union_nomerge(ps) ==
    [type |-> IF Len(ps) = 1 THEN "Polygon"
              ELSE IF Len(ps) = 0 THEN "GeometryCollection" ELSE "MultiPolygon",
     geoms |-> ps]
unary_union(ps) ==
    LET geoms == RegionSeq(Covered(ps))
    IN  [type |-> IF Len(geoms) = 1 THEN "Polygon"
                  ELSE IF Len(geoms) = 0 THEN "GeometryCollection"
                  ELSE "MultiPolygon",
         geoms |-> geoms]

\* if dissolved_poly.type == 'Polygon': dissolved_poly = [dissolved_poly]; the
\* for loop then iterates the list, or the parts of the multi-part geometry.
Parts(dissolved_poly) == dissolved_poly.geoms

\* _poly.simplify(tolerance): the same region with fewer nodes
simplify(poly) == [poly EXCEPT !.simplified = TRUE]

\* out_feature = {'type': 'Feature', 'properties': properties2, 'geometry': geometry2}
out_feature(poly) ==
    [type |-> "Feature", properties |-> "dissolved", geometry |-> simplify(poly)]

\* for _poly in dissolved_poly: ... add_feature(out_feature, out_jsonfile)
\* [file, err, emitted]: stops at the first add_feature that raises.
RECURSIVE WriteAll(_, _)
WriteAll(content, polys) ==
    IF polys = <<>> THEN [file |-> content, err |-> "none", emitted |-> <<>>]
    ELSE LET f == out_feature(Head(polys))
             r == add_feature(content, f)
         IN  IF r.err # "none"
             THEN [file |-> r.file, err |-> r.err, emitted |-> <<f>>]
             ELSE LET t == WriteAll(r.file, Tail(polys))
                  IN  [file |-> t.file, err |-> t.err, emitted |-> <<f>> \o t.emitted]

\* if not os.path.exists(zldir): the variant omits the check.
zldir_missing_never == FALSE
zldir_missing == ~zldirExists

\* A feature an earlier session left in the output file.
OldFeature == out_feature([cells |-> {1}, simplified |-> FALSE])

\* The tile files holding the features fs: one file, or two in glob order (either
\* may be an empty collection); a directory without features may hold no file.
Layouts(fs) ==
    {<<fs>>}
    \cup {<<SubSeq(fs, 1, k), SubSeq(fs, k + 1, Len(fs))>> : k \in 0..Len(fs)}
    \cup (IF fs = <<>> THEN {<<>>} ELSE {})

InitDissolve ==
    /\ AppendIdle /\ TileIdle /\ ColorIdle
    /\ zldirExists \in BOOLEAN
    /\ IF zldirExists
       THEN /\ \E n \in 0..MaxFeatures :
                 \E fs \in [1..n -> InputFeatures] : tiles \in Layouts(fs)
            /\ zl1dirExists = FALSE
            /\ out_jsonfile = Absent
       ELSE /\ tiles = <<>>
            /\ zl1dirExists \in BOOLEAN
            /\ out_jsonfile \in
                  (IF zl1dirExists THEN {Absent, Doc(FC, <<OldFeature>>)} ELSE {Absent})
    /\ runs = 0 /\ status = "none" /\ exc = "none"
    /\ polygons = <<>> /\ emitted = <<>>
    /\ before = [file |-> out_jsonfile, dir |-> zl1dirExists]

\* main of make_zl1_geojson.py, from the argument check to the end
main ==
    /\ runs < MaxRuns
    /\ runs' = runs + 1
    /\ before' = [file |-> out_jsonfile, dir |-> zl1dirExists]
    /\ IF zldir_missing
       THEN \* raise FileNotFoundError(f'No {zldir} exists!')
            /\ status' = "raised" /\ exc' = "FileNotFoundError"
            /\ polygons' = <<>> /\ emitted' = <<>>
            /\ UNCHANGED <<zl1dirExists, out_jsonfile>>
       ELSE LET polys == Collect(tiles)
                dissolved_poly == unary_union(polys)
                w == WriteAll(out_jsonfile, Parts(dissolved_poly))
            IN  /\ zl1dirExists' = TRUE      \* os.makedirs(zl1dir, exist_ok=True)
                /\ polygons' = polys
                /\ out_jsonfile' = w.file
                /\ emitted' = w.emitted
                /\ status' = (IF w.err = "none" THEN "finished" ELSE "raised")
                /\ exc' = w.err
    /\ UNCHANGED <<zldirExists, tiles, avars, tvars, cvars>>

NextDissolve == main

SpecDissolve == InitDissolve /\ [][NextDissolve]_vars

\* ------------------------------------------------ claims about the dissolver
\* The features of all tile files, in the order the loops visit them.
RECURSIVE Flatten(_)
Flatten(files) == IF files = <<>> THEN <<>> ELSE Head(files) \o Flatten(Tail(files))

InRange(l) == -LatLimit <= l /\ l <= LatLimit
IsInRangeFeature(f) == InRange(f.lat)

\* The cells the features of a collection cover.
FeatureCells(fs) == UNION {fs[i].geometry.cells : i \in 1..Len(fs)}

\* Two polygons with a gap between them: no shared cell, no shared edge.
Apart(p, q) == \A c \in p.cells, d \in q.cells : c - d > 1 \/ d - c > 1

\* C2: after every run that finished, the output file holds only the features the
\* latest run produced.
C2_Regenerated ==
    status = "finished" => out_jsonfile.features = emitted

\* C4: a run that finds no <input_dir>/<zl> raises FileNotFoundError and leaves
\* the output directory and the output file as they were (created or not).
C4_MissingInputDir ==
    (runs > 0 /\ ~zldirExists) =>
        /\ status = "raised" /\ exc = "FileNotFoundError"
        /\ emitted = <<>>
        /\ zl1dirExists = before.dir
        /\ out_jsonfile = before.file

\* C4 witness: a run has failed on the missing input directory; no output directory
\* and no output file exist.
C4_Witness ==
    /\ runs > 0 /\ ~zldirExists /\ exc = "FileNotFoundError"
    /\ ~zl1dirExists /\ out_jsonfile = Absent

\* C5: a run whose latitude filter leaves no polygon raises a geometry error and
\* leaves the output file as it was.
C5_EmptyIsGeometryError ==
    (runs > 0 /\ zldirExists /\ polygons = <<>>) =>
        /\ status = "raised" /\ exc = "GeometryError"
        /\ out_jsonfile = before.file

\* C6: the polygons a run unions are exactly those of the features, over all tile
\* files in reading order, whose first-vertex latitude lies in [-84, 84]; what the
\* polygon covers plays no part.
C6_LatitudeFilter ==
    (runs > 0 /\ zldirExists) =>
        LET kept == SelectSeq(Flatten(tiles), IsInRangeFeature)
        IN  /\ Len(polygons) = Len(kept)
            /\ \A i \in 1..Len(kept) : polygons[i] = Polygon(kept[i])

\* C6 witness: of a feature at latitude 85 and one at exactly 84 with another
\* footprint, only the second was collected.
C6_Witness ==
    /\ runs > 0 /\ zldirExists
    /\ LET all == Flatten(tiles)
       IN  /\ Len(all) = 2
           /\ \E i, j \in 1..2 :
                 /\ all[i].lat = 85 /\ all[j].lat = LatLimit
                 /\ all[i].cells # all[j].cells
                 /\ polygons = <<Polygon(all[j])>>

\* C7: a run that starts without an output file writes one feature per connected
\* region of the union of the collected polygons, the features together covering
\* exactly that union: one polygon gives one feature, two polygons with a gap two,
\* two overlapping polygons one.
C7_OneFeaturePerRegion ==
    (status = "finished" /\ before.file = Absent) =>
        LET U == Covered(polygons)
            fs == out_jsonfile.features
        IN  /\ Len(fs) = Cardinality({c \in U : c - 1 \notin U})
            /\ FeatureCells(fs) = U
            /\ Len(polygons) = 1 => Len(fs) = 1
            /\ Len(polygons) = 2 =>
                  Len(fs) = (IF Apart(polygons[1], polygons[2]) THEN 2 ELSE 1)

\* C7 witness: two different overlapping polygons were merged into one feature.
C7_Witness ==
    /\ status = "finished" /\ before.file = Absent
    /\ Len(polygons) = 2
    /\ polygons[1].cells # polygons[2].cells
    /\ polygons[1].cells \cap polygons[2].cells # {}
    /\ Len(out_jsonfile.features) = 1
    /\ out_jsonfile.features[1].geometry.cells
           = polygons[1].cells \cup polygons[2].cells

\* Also reached: two polygons with a gap give two features.
C7_DisjointWitness ==
    /\ status = "finished" /\ before.file = Absent
    /\ Len(polygons) = 2 /\ Apart(polygons[1], polygons[2])
    /\ Len(out_jsonfile.features) = 2

\* ------------------------------------------------ SpecTile: latlon2tileid
RECURSIVE Pow2(_)
Pow2(n) == IF n = 0 THEN 1 ELSE 2 * Pow2(n - 1)

\* int(): truncation toward zero (den > 0)
IntTrunc(num, den) == IF num >= 0 THEN num \div den ELSE -((-num) \div den)

\* Arguments tried: longitudes and latitudes in whole degrees.
LonSet == {-180, -179, -135, -90, -1, 0, 1, 90, 179, 180}
LatSet == {-90, -89, -85, -84, -60, 0, 60, 84, 85, 89, 90}

\* np.log(np.tan(np.deg2rad(45+lat/2))) is -inf: tan is exactly 0 at lat = -90
\* (at lat = +90 the float tangent is 1.6e16 and the logarithm finite).
MercInfinite(l) == l = -90

\* (-np.log(np.tan(np.deg2rad(45+lat/2)))+np.pi)/(2*np.pi) in millionths, the
\* double the code computes cut toward zero (tabulated for LatSet).
MercMicro(l) ==
    CASE l = -89 -> 1254609
      [] l = -85 -> 998362
      [] l = -84 -> 969300
      [] l = -60 -> 709600
      [] l = 0 -> 500000
      [] l = 60 -> 290399
      [] l = 84 -> 30699
      [] l = 85 -> 1637
      [] l = 89 -> -254609
      [] l = 90 -> -5441549

\* x = int((lon/180+1)*2**zl/2); the variant rounds to the nearest integer.
tile_x_round(ln, z) == IntTrunc((ln + 180) * Pow2(z) + 180, 360)
tile_x(ln, z) == IntTrunc((ln + 180) * Pow2(z), 360)

\* y = int(((-np.log(np.tan(np.deg2rad(45+lat/2)))+np.pi)*2**zl/(2*np.pi)))
tile_y(l, z) == IntTrunc(MercMicro(l) * Pow2(z), 1000000)

\* latlon2tileid(lat, lon, zl): (x, y), or the OverflowError of int(inf)
latlon2tileid(l, ln, z) ==
    IF MercInfinite(l)
    THEN [kind |-> "raised", x |-> 0, y |-> 0]
    ELSE [kind |-> "tile", x |-> tile_x(ln, z), y |-> tile_y(l, z)]

InitTile ==
    /\ AppendIdle /\ DissolveIdle /\ ColorIdle
    /\ lat \in LatSet /\ lon \in LonSet /\ zl \in 0..MaxZoom
    /\ tile = [kind |-> "none", x |-> 0, y |-> 0]

\* x, y = latlon2tileid(lat_c, lon_c, zl)
Compute ==
    /\ tile.kind = "none"
    /\ tile' = latlon2tileid(lat, lon, zl)
    /\ UNCHANGED <<lat, lon, zl, avars, dvars, cvars>>

NextTile == Compute

SpecTile == InitTile /\ [][NextTile]_vars

\* ------------------------------------------------ claims about latlon2tileid
\* Latitudes inside the Web Mercator range (about 85.05 degrees either side).
InMercator(l) == -85 <= l /\ l <= 85

\* C8 (as amended): for a latitude in the Web Mercator range, x is
\* floor((lon/180 + 1) * 2^z / 2) and 0 <= y < 2^z; 0 <= x < 2^z for every
\* longitude in [-180, 180), and x = 2^z at longitude 180.
C8_TileInRange ==
    (tile.kind # "none" /\ InMercator(lat)) =>
        /\ tile.kind = "tile"
        /\ tile.x = ((lon + 180) * Pow2(zl)) \div 360
        /\ 0 <= tile.y /\ tile.y < Pow2(zl)
        /\ lon < 180 => (0 <= tile.x /\ tile.x < Pow2(zl))
        /\ lon = 180 => tile.x = Pow2(zl)

\* C8 witness: the last column and the last row at the largest zoom level.
C8_Witness ==
    /\ tile.kind = "tile" /\ zl = MaxZoom /\ lon = 179 /\ lat = -85
    /\ tile.x = Pow2(zl) - 1 /\ tile.y = Pow2(zl) - 1

\* C8 as stated: for every longitude in [-180, 180] and latitude in the Web
\* Mercator range, 0 <= x < 2^z and 0 <= y < 2^z, x the floor formula.
C8_TileInRangeClosed ==
    (tile.kind # "none" /\ InMercator(lat)) =>
        /\ tile.kind = "tile"
        /\ tile.x = ((lon + 180) * Pow2(zl)) \div 360
        /\ 0 <= tile.x /\ tile.x < Pow2(zl)
        /\ 0 <= tile.y /\ tile.y < Pow2(zl)

\* C9: at either pole latlon2tileid raises instead of returning a tile id.
C9_PolesRaise ==
    (tile.kind # "none" /\ lat \in {-90, 90}) => tile.kind = "raised"

\* ------------------------------------- SpecColor: the fill colour of a frame
(* Strings are sequences of one-character strings, so that slicing, padding  *)
(* and repetition are computed as Python computes them.                      *)
HexDigits ==
    <<"0", "1", "2", "3", "4", "5", "6", "7", "8", "9", "a", "b", "c", "d", "e", "f">>

\* The hexadecimal digits of n >= 0, most significant first ("0" for 0).
RECURSIVE HexOf(_)
HexOf(n) ==
    IF n < 16 THEN <<HexDigits[n + 1]>>
    ELSE HexOf(n \div 16) \o <<HexDigits[(n % 16) + 1]>>

\* hex(n): '0x..' for n >= 0, '-0x..' for n < 0
hex(n) == IF n >= 0 THEN <<"0", "x">> \o HexOf(n) ELSE <<"-", "0", "x">> \o HexOf(-n)

\* s[2:]
From2(s) == SubSeq(s, 3, Len(s))

\* s.zfill(2): zeros on the left up to width 2, after a leading sign if any
zfill2(s) ==
    IF Len(s) >= 2 THEN s
    ELSE IF Len(s) = 1 /\ s[1] \in {"+", "-"} THEN <<s[1], "0">>
    ELSE IF Len(s) = 1 THEN <<"0">> \o s
    ELSE <<"0", "0">>

Red == <<"#", "f", "f", "0", "0", "0", "0">>

\* color = "#ff"+hex(255-n_im*8)[2:].zfill(2)*2
shade(n) ==
    LET h == zfill2(From2(hex(255 - n * 8))) IN <<"#", "f", "f">> \o h \o h

InitColor ==
    /\ AppendIdle /\ DissolveIdle /\ TileIdle
    /\ n_im \in 0..MaxEpochs
    /\ color = <<>> /\ fillColor = <<>>
    /\ cpc = "if"

\* if n_im >= 32: color = "#ff0000"
Saturate ==
    /\ cpc = "if"
    /\ color' = (IF n_im >= 32 THEN Red ELSE color)
    /\ cpc' = "assign"
    /\ UNCHANGED <<n_im, fillColor, avars, dvars, tvars>>

\* color = "#ff"+hex(255-n_im*8)[2:].zfill(2)*2 (not under an else)
Shade ==
    /\ cpc = "assign"
    /\ color' = shade(n_im)
    /\ cpc' = "properties"
    /\ UNCHANGED <<n_im, fillColor, avars, dvars, tvars>>

\* properties = {..., "_fillColor": color, ...}
SetProperties ==
    /\ cpc = "properties"
    /\ fillColor' = color
    /\ cpc' = "done"
    /\ UNCHANGED <<n_im, color, avars, dvars, tvars>>

NextColor == Saturate \/ Shade \/ SetProperties

SpecColor == InitColor /\ [][NextColor]_vars

\* ------------------------------------------------ claims about the fill colour
HexChars == {HexDigits[i] : i \in 1..16}

\* '#ff' followed by one two-hex-digit value, twice.
ValidFill(s) ==
    /\ Len(s) = 7
    /\ SubSeq(s, 1, 3) = <<"#", "f", "f">>
    /\ s[4] \in HexChars /\ s[5] \in HexChars
    /\ SubSeq(s, 6, 7) = SubSeq(s, 4, 5)

\* C11: the _fillColor of every frame is '#ff' followed by a two-hex-digit value
\* twice, and it is "#ff0000" for every frame of 32 epochs or more.
C11_FillColourValid ==
    cpc = "done" =>
        /\ ValidFill(fillColor)
        /\ n_im >= 32 => fillColor = Red

\* What the code does hold to: below 32 epochs the colour is valid, the value
\* 255 - 8*n_im in two hex digits.
C11_ValidBelow32 ==
    (cpc = "done" /\ n_im < 32) =>
        /\ ValidFill(fillColor)
        /\ SubSeq(fillColor, 4, 5) = zfill2(HexOf(255 - 8 * n_im))

====
